---- MODULE Spec2Model ----
(***************************************************************************)
(* Model of mlxtend/feature_selection/generic_selector.py: the             *)
(* FeatureSelector search driver and the MinMaxCandidates / StepCandidates *)
(* candidate generators.                                                   *)
(*                                                                         *)
(* A state of the search is a tuple of column identifiers (a sequence).    *)
(* A Python dict is a sequence of entries in insertion order; assigning to *)
(* an existing key replaces the value and keeps the position.              *)
(* The estimator and the scorer are opaque: an evaluation returns any      *)
(* score of Scores.  Score arrays have one element (the cv-disabled branch *)
(* of _calc_score), so that avg_score is that element.                     *)
(***************************************************************************)
EXTENDS Integers, Sequences, FiniteSets, TLC

\* ---------------------------------------------------------------- bounds
MaxCols == 2
MaxRows == 2
MaxScore == 1
MaxFits == 2
MaxJobs == 2

\* ------------------------------------------------------------- variables
VARIABLES
    n_rows,         \* X.shape[0]
    n_cols,         \* X.shape[1]
    ctor_call,      \* the last generator construction: arguments and outcome
    gen,            \* the candidate generator object (cls = "none": not built)
    factory,        \* how the search was configured
    initial_state,  \* FeatureSelector.initial_state
    results_,       \* FeatureSelector.results_
    best_state_,    \* FeatureSelector.best_state_
    best_score_,    \* FeatureSelector.best_score_
    finished,       \* FeatureSelector.finished
    interrupted_,   \* FeatureSelector.interrupted_
    fitted,         \* FeatureSelector.fitted
    pc,             \* position of the fit call
    _state,         \* fit's local _state: the round's reference state
    _score,         \* fit's local _score
    candidates,     \* _batch's local candidates (None outside _batch)
    work,           \* _batch's local work: the evaluations, in candidate order
    call_result,    \* what the last transform, fit_transform or get_metric_dict
                    \* call returned or raised
    interrupt_at,   \* where a KeyboardInterrupt hit the loop of this fit
    completed_best_state,  \* best_state_ as the last completed fit left it
    parallel,       \* the Parallel object of _batch: n_jobs, backend, whether
                    \* cv is on, the evaluations running and those completed
    n_evals,        \* evaluations of this fit whose result was delivered
                    \* (empty outside _batch)
    last_check,     \* what check_finished returned last, and its arguments
    n_fits,         \* number of fit calls started
    proposal        \* the last call of the generator object: "none" before
                    \* any call, then "first", then "later"

vars == <<parallel, completed_best_state, n_rows, n_cols, ctor_call, gen, factory, initial_state, results_,
          best_state_, best_score_, finished, interrupted_, fitted, pc,
          _state, _score, candidates, work, call_result, interrupt_at,
          n_evals, last_check, n_fits, proposal>>

\* ----------------------------------------------------------- Python values
\* -np.inf: below every score
NegInf == -1
\* the None of a state-valued variable
None == <<NegInf>>
\* the None of a score-valued variable
NoneScore == NegInf - 1
\* the scores an evaluation can return
Scores == 0 .. MaxScore

ToSet(t) == {t[i] : i \in DOMAIN t}

RECURSIVE sorted(_)
sorted(S) ==
    IF S = {} THEN <<>>
    ELSE LET m == CHOOSE x \in S : \A y \in S : x <= y
         IN <<m>> \o sorted(S \ {m})

range(k) == [i \in 1 .. k |-> i - 1]

\* self.columns = np.arange(X.shape[1])
Columns == 0 .. (n_cols - 1)
ColumnSeq == range(n_cols)

\* set ^ set
SymDiff(A, B) == (A \ B) \cup (B \ A)

\* itertools.combinations(pool, r): r-length subsequences in lexicographic order
RECURSIVE combinations(_, _)
combinations(pool, r) ==
    IF r = 0 THEN << <<>> >>
    ELSE IF Len(pool) < r THEN <<>>
    ELSE LET with == combinations(Tail(pool), r - 1)
             without == combinations(Tail(pool), r)
         IN [i \in 1 .. Len(with) |-> <<Head(pool)>> \o with[i]] \o without

\* ------------------------------------------------------------------ dicts
DictKeys(d) == {d[i].state : i \in DOMAIN d}
DictIndex(d, k) == CHOOSE i \in DOMAIN d : d[i].state = k
DictGet(d, k) == d[DictIndex(d, k)]
DictSet(d, e) ==
    IF e.state \in DictKeys(d)
    THEN [d EXCEPT ![DictIndex(d, e.state)] = e]
    ELSE Append(d, e)

RECURSIVE DictUpdate(_, _)
DictUpdate(d, b) ==
    IF b = <<>> THEN d ELSE DictUpdate(DictSet(d, Head(b)), Tail(b))

\* np.nanmean of a one-element score array
nanmean(cv_scores) == cv_scores[1]

Entry(state, cv_scores) ==
    [state |-> state, cv_scores |-> cv_scores, avg_score |-> nanmean(cv_scores)]

\* -------------------------------------------------- generator construction
\* a min_features / max_features argument: an int, or a value of another type
IntArg(v) == [is_int |-> TRUE, val |-> v]
NonIntArg == [is_int |-> FALSE, val |-> 1]
FeatureCountArgs == {IntArg(v) : v \in 0 .. (MaxRows + 1)} \cup {NonIntArg}

Directions == {"forward", "backward", "both"}

NoGen ==
    [cls |-> "none", direction |-> "forward", min_features |-> 0,
     max_features |-> 0, fixed_features |-> {}, _have_already_run |-> FALSE]

NoCall ==
    [cls |-> "none", direction |-> "forward", min_features |-> IntArg(0),
     max_features |-> IntArg(0), fixed_features |-> {}, raised |-> "none"]

\* nfeatures = X_.shape[0]
nfeatures == n_rows

\* the validation of MinMaxCandidates.__init__: the error raised, or "ok"
MinMaxCandidates__init__raises(min_features, max_features) ==
    IF ~max_features.is_int
       \/ (max_features.val > nfeatures \/ max_features.val < 1)
    THEN "AttributeError"
    ELSE IF ~min_features.is_int
            \/ (min_features.val > nfeatures \/ min_features.val < 1)
    THEN "AttributeError"
    ELSE IF max_features.val < min_features.val
    THEN "AttributeError"
    ELSE "ok"

\* the object MinMaxCandidates.__init__ / StepCandidates.__init__ leaves
NewGen(cls, direction, min_features, max_features, fixed_features) ==
    [cls |-> cls, direction |-> direction,
     min_features |-> min_features.val, max_features |-> max_features.val,
     fixed_features |-> fixed_features, _have_already_run |-> FALSE]

Call(g, min_features, max_features, raised) ==
    [cls |-> g.cls, direction |-> g.direction, min_features |-> min_features,
     max_features |-> max_features, fixed_features |-> g.fixed_features,
     raised |-> raised]

\* initial_features of min_max_candidates, and forward_features of step_candidates
forward_features(g) ==
    IF g.fixed_features # {} THEN sorted(g.fixed_features)
    ELSE range(g.min_features)

\* the initial_features argument of step_candidates: None, a sorted list of
\* distinct columns, or a pair that is unsorted or repeats a column
InitialFeaturesArgs ==
    {[none |-> TRUE, items |-> <<>>]}
    \cup {[none |-> FALSE, items |-> sorted(S)] : S \in SUBSET Columns}
    \cup {[none |-> FALSE, items |-> <<p[1], p[2]>>] :
              p \in {q \in Columns \X Columns : q[1] >= q[2]}}

\* the checks at the end of step_candidates
step_candidates_raises(g, initial_features) ==
    IF Len(initial_features) > g.max_features THEN "ValueError"
    ELSE IF Len(initial_features) < g.min_features THEN "ValueError"
    ELSE IF ~(g.fixed_features \subseteq ToSet(initial_features)) THEN "ValueError"
    ELSE "ok"

\* no generator has been constructed, or asked for, yet
Unconfigured == gen.cls = "none" /\ ctor_call.cls = "none"

Configure(g, how, state) ==
    /\ gen' = g
    /\ factory' = how
    /\ initial_state' = state

\* min_max_candidates(X, min_features, max_features, fixed_features)
min_max_candidates ==
    /\ Unconfigured
    /\ \E min_features \in FeatureCountArgs, max_features \in FeatureCountArgs,
          fixed_features \in SUBSET Columns :
          LET raised == MinMaxCandidates__init__raises(min_features, max_features)
              g == NewGen("minmax", "forward", min_features, max_features,
                          fixed_features)
          IN /\ ctor_call' = Call(g, min_features, max_features, raised)
             /\ IF raised = "ok"
                THEN Configure(g, "min_max_candidates", forward_features(g))
                ELSE UNCHANGED <<gen, factory, initial_state>>
    /\ UNCHANGED <<parallel, completed_best_state, n_rows, n_cols, results_, best_state_, best_score_, finished,
                   interrupted_, fitted, pc, _state, _score, candidates, work,
                   call_result, interrupt_at, n_evals, last_check, n_fits,
                   proposal>>

\* step_candidates(X, direction, min_features, max_features, fixed_features,
\*                 initial_features)
step_candidates ==
    /\ Unconfigured
    /\ \E direction \in Directions,
          min_features \in FeatureCountArgs, max_features \in FeatureCountArgs,
          fixed_features \in SUBSET Columns, initial_features \in InitialFeaturesArgs :
          LET raised == MinMaxCandidates__init__raises(min_features, max_features)
              g == NewGen("step", direction, min_features, max_features,
                          fixed_features)
          IN /\ ctor_call' = Call(g, min_features, max_features, raised)
             /\ IF raised # "ok"
                THEN UNCHANGED <<gen, factory, initial_state>>
                ELSE IF direction = "forward"
                        \/ (direction = "both" /\ initial_features.none)
                THEN \* initial_features = forward_features
                     IF step_candidates_raises(g, forward_features(g)) = "ok"
                     THEN Configure(g, "step_candidates", forward_features(g))
                     ELSE UNCHANGED <<gen, factory, initial_state>>
                ELSE IF ~initial_features.none
                THEN IF step_candidates_raises(g, initial_features.items) = "ok"
                     THEN Configure(g, "step_candidates", initial_features.items)
                     ELSE UNCHANGED <<gen, factory, initial_state>>
                ELSE \* backward: sorted(random_state.choice(cols, max_features,
                     \*                                      replace=False))
                     \/ /\ g.max_features > n_cols
                        /\ UNCHANGED <<gen, factory, initial_state>>
                     \/ \E S \in SUBSET Columns :
                           /\ Cardinality(S) = g.max_features
                           /\ IF step_candidates_raises(g, sorted(S)) = "ok"
                              THEN Configure(g, "step_candidates", sorted(S))
                              ELSE UNCHANGED <<gen, factory, initial_state>>
    /\ UNCHANGED <<parallel, completed_best_state, n_rows, n_cols, results_, best_state_, best_score_, finished,
                   interrupted_, fitted, pc, _state, _score, candidates, work,
                   call_result, interrupt_at, n_evals, last_check, n_fits,
                   proposal>>

\* StepCandidates(X, direction, min_features, max_features, fixed_features) built
\* by the caller and handed to FeatureSelector(estimator, initial_state, step,
\* build_submodel, step.check_finished), with initial_state the empty tuple or
\* the tuple of all columns
FeatureSelector__init__ ==
    /\ Unconfigured
    /\ \E direction \in Directions,
          min_features \in FeatureCountArgs, max_features \in FeatureCountArgs,
          fixed_features \in SUBSET Columns, S \in {{}, Columns} :
          LET raised == MinMaxCandidates__init__raises(min_features, max_features)
              g == NewGen("step", direction, min_features, max_features,
                          fixed_features)
          IN /\ ctor_call' = Call(g, min_features, max_features, raised)
             /\ IF raised = "ok"
                THEN Configure(g, "direct", sorted(S))
                ELSE UNCHANGED <<gen, factory, initial_state>>
    /\ UNCHANGED <<parallel, completed_best_state, n_rows, n_cols, results_, best_state_, best_score_, finished,
                   interrupted_, fitted, pc, _state, _score, candidates, work,
                   call_result, interrupt_at, n_evals, last_check, n_fits,
                   proposal>>

\* ------------------------------------------------------ candidate batches
\* what a generator call returns: None, or an iterable with its items; raises
\* marks an iterable that fails with TypeError once its items are consumed
NoCandidates == [none |-> TRUE, items |-> <<>>, raises |-> FALSE]
Iterable(items) == [none |-> FALSE, items |-> items, raises |-> FALSE]

\* chain_(i) without the fixed_features test
chain_unfiltered(g, i) == combinations(ColumnSeq, i)

\* chain_(i) of MinMaxCandidates.__call__
chain_(g, i) ==
    SelectSeq(combinations(ColumnSeq, i),
              LAMBDA c : g.fixed_features \subseteq ToSet(c))

\* chain.from_iterable(chain_(i) for i in range(lo, hi + 1))
RECURSIVE chain_from_iterable(_, _, _)
chain_from_iterable(g, lo, hi) ==
    IF lo > hi THEN <<>>
    ELSE chain_(g, lo) \o chain_from_iterable(g, lo + 1, hi)

\* MinMaxCandidates.__call__ with range(min_features, max_features)
MinMaxCandidates__call__max_exclusive(g, state) ==
    IF ~g._have_already_run
    THEN Iterable(chain_from_iterable(g, g.min_features, g.max_features - 1))
    ELSE NoCandidates

\* MinMaxCandidates.__call__(state): the value returned
MinMaxCandidates__call__(g, state) ==
    IF ~g._have_already_run
    THEN Iterable(chain_from_iterable(g, g.min_features, g.max_features))
    ELSE NoCandidates

\* the forward generator without the test c not in state
forward_any_column(g, state) ==
    LET S == ToSet(state)
        cs == SelectSeq(ColumnSeq,
                        LAMBDA c : g.fixed_features \subseteq (S \cup {c}))
    IN IF Cardinality(S) < g.max_features
       THEN Iterable([i \in 1 .. Len(cs) |-> sorted(S \cup {cs[i]})])
       ELSE NoCandidates

\* the forward generator with len(state) <= self.max_features
forward_at_max(g, state) ==
    LET S == ToSet(state)
        cs == SelectSeq(ColumnSeq,
                        LAMBDA c : c \notin S
                                   /\ g.fixed_features \subseteq (S \cup {c}))
    IN IF Cardinality(S) <= g.max_features
       THEN Iterable([i \in 1 .. Len(cs) |-> sorted(S \cup {cs[i]})])
       ELSE NoCandidates

\* the forward generator of StepCandidates.__call__
forward(g, state) ==
    LET S == ToSet(state)
        cs == SelectSeq(ColumnSeq,
                        LAMBDA c : c \notin S
                                   /\ g.fixed_features \subseteq (S \cup {c}))
    IN IF Cardinality(S) < g.max_features
       THEN Iterable([i \in 1 .. Len(cs) |-> sorted(S \cup {cs[i]})])
       ELSE NoCandidates

\* the backward generator without the fixed_features test
backward_unfiltered(g, state) ==
    LET S == ToSet(state)
        cs == SelectSeq(ColumnSeq, LAMBDA c : c \in S)
    IN IF Cardinality(S) > g.min_features
       THEN Iterable([i \in 1 .. Len(cs) |-> sorted(SymDiff(S, {cs[i]}))])
       ELSE NoCandidates

\* the backward generator with len(state) >= self.min_features
backward_at_min(g, state) ==
    LET S == ToSet(state)
        cs == SelectSeq(ColumnSeq,
                        LAMBDA c : c \in S
                                   /\ g.fixed_features \subseteq SymDiff(S, {c}))
    IN IF Cardinality(S) >= g.min_features
       THEN Iterable([i \in 1 .. Len(cs) |-> sorted(SymDiff(S, {cs[i]}))])
       ELSE NoCandidates

\* the backward generator of StepCandidates.__call__
backward(g, state) ==
    LET S == ToSet(state)
        cs == SelectSeq(ColumnSeq,
                        LAMBDA c : c \in S
                                   /\ g.fixed_features \subseteq SymDiff(S, {c}))
    IN IF Cardinality(S) > g.min_features
       THEN Iterable([i \in 1 .. Len(cs) |-> sorted(SymDiff(S, {cs[i]}))])
       ELSE NoCandidates

\* StepCandidates.__call__(state): the value returned
StepCandidates__call__(g, state) ==
    IF g.direction = "forward" THEN forward(g, state)
    ELSE IF g.direction = "backward" THEN backward(g, state)
    ELSE \* chain.from_iterable([forward, backward]): iterating None raises
         LET f == forward(g, state)
             b == backward(g, state)
         IN [none |-> FALSE,
             items |-> IF f.none THEN <<>> ELSE f.items \o b.items,
             raises |-> f.none \/ b.none]

\* self.state_generator(state)
state_generator(g, state) ==
    IF g.cls = "minmax" THEN MinMaxCandidates__call__(g, state)
    ELSE StepCandidates__call__(g, state)

\* a call that does not record that it has run
state_generator_after_unrecorded(g) == g

\* the generator object after the call
state_generator_after(g) ==
    IF g.cls = "minmax" THEN [g EXCEPT !._have_already_run = TRUE] ELSE g

\* ------------------------------------------------------------ check_finished
\* MinMaxCandidates.check_finished(results, best_state, batch_results)
MinMaxCandidates_check_finished(results, best_state, batch_results) ==
    <<best_state, DictGet(results, best_state).avg_score, TRUE>>

\* the scan of StepCandidates.check_finished: (batch_best_state, batch_best_score)
RECURSIVE batch_best(_, _, _)
batch_best(batch_results, state, score) ==
    IF batch_results = <<>> THEN <<state, score>>
    ELSE LET e == Head(batch_results)
         IN IF e.avg_score > score
            THEN batch_best(Tail(batch_results), e.state, e.avg_score)
            ELSE batch_best(Tail(batch_results), state, score)

\* check_finished that goes on when the batch only ties with the best state
StepCandidates_check_finished_strict(results, best_state, batch_results) ==
    LET b == batch_best(batch_results, None, NegInf)
    IN <<b[1], b[2], b[2] < DictGet(results, best_state).avg_score>>

\* StepCandidates.check_finished(results, best_state, batch_results)
StepCandidates_check_finished(results, best_state, batch_results) ==
    LET b == batch_best(batch_results, None, NegInf)
    IN <<b[1], b[2], b[2] <= DictGet(results, best_state).avg_score>>

\* self.check_finished
check_finished(g, results, best_state, batch_results) ==
    IF g.cls = "minmax"
    THEN MinMaxCandidates_check_finished(results, best_state, batch_results)
    ELSE StepCandidates_check_finished(results, best_state, batch_results)

\* --------------------------------------------------------- FeatureSelector
\* FeatureSelector.update_results_check(batch_results): the fields it leaves
\* and the triple it returns
update_results_check(g, results, best_state, best_score, batch_results) ==
    IF batch_results = <<>>
    THEN [results_ |-> results, best_state_ |-> best_state,
          best_score_ |-> best_score, ret |-> <<None, NoneScore, TRUE>>,
          checked |-> FALSE]
    ELSE LET merged == DictUpdate(results, batch_results)
             cur == check_finished(g, merged, best_state, batch_results)
         IN [results_ |-> merged,
             best_state_ |-> IF cur[2] > best_score THEN cur[1] ELSE best_state,
             best_score_ |-> IF cur[2] > best_score THEN cur[2] ELSE best_score,
             ret |-> cur, checked |-> TRUE]

\* the scan of FeatureSelector.postprocess: (best_state_, best_score_)
RECURSIVE postprocess_scan(_, _, _)
postprocess_scan(results, state, score) ==
    IF results = <<>> THEN <<state, score>>
    ELSE LET e == Head(results)
         IN IF e.avg_score > score
            THEN postprocess_scan(Tail(results), e.state, e.avg_score)
            ELSE postprocess_scan(Tail(results), state, score)

\* postprocess with best_score_ starting at 0 instead of -np.inf
postprocess_from_zero(results) == postprocess_scan(results, None, 0)

\* FeatureSelector.postprocess()
postprocess(results) == postprocess_scan(results, None, NegInf)

\* the results dict that _batch builds from work
batch_results_of(w) == DictUpdate(<<>>, w)

\* what check_finished was called with and what it returned
NoCheck ==
    [called |-> FALSE, results |-> <<>>, best_state |-> None, ret |-> <<None, NoneScore, TRUE>>]
Checked(u, best_state) ==
    [called |-> u.checked, results |-> IF u.checked THEN u.results_ ELSE <<>>,
     best_state |-> IF u.checked THEN best_state ELSE None, ret |-> u.ret]

\* build_submodel(X, state) raises KeyError for a column that X does not have
build_submodel_raises(state) == ~(ToSet(state) \subseteq Columns)

\* a try statement that lets KeyboardInterrupt pass
except_reraises(at) == [interrupted_ |-> TRUE, pc |-> "raised"]

\* the try statement around the loop, for a KeyboardInterrupt raised at
\* position at of the loop: the handler sets interrupted_ and fit goes on
\* after the loop
except_KeyboardInterrupt(at) == [interrupted_ |-> TRUE, pc |-> "exit"]

\* a KeyboardInterrupt inside _batch: the partial work is a local of _batch and
\* is lost with it, self.results_ is only written by update_results_check
_batch_interrupted_merging(results, w) == DictUpdate(results, w)
_batch_interrupted(results, w) == results

\* ------------------------------------------- transform, get_metric_dict
\* what a call returned (raises = "none") or which error it raised
NoResult == [op |-> "none", raises |-> "none", value |-> <<>>]
Returns(op, value) == [op |-> op, raises |-> "none", value |-> value]
Raises(op, error) == [op |-> op, raises |-> error, value |-> <<>>]

\* _check_fitted(): the error it raises, "none" if it returns
_check_fitted(is_fitted) ==
    IF ~is_fitted THEN "AttributeError: not fitted" ELSE "none"

\* X[:, c], the data of column c of the dataset
XColumn(c) == [column |-> c]

\* build_submodel(X, cols): the columns of cols, stacked in the order of cols
build_submodel(cols) == [i \in 1 .. Len(cols) |-> XColumn(cols[i])]

\* transform without the _check_fitted() call
transform_unchecked(is_fitted, best_state) ==
    Returns("transform", build_submodel(best_state))

\* transform(X)
transform_returns(is_fitted, best_state) ==
    IF _check_fitted(is_fitted) # "none"
    THEN Raises("transform", _check_fitted(is_fitted))
    ELSE IF build_submodel_raises(best_state)
    THEN Raises("transform", "KeyError")
    ELSE Returns("transform", build_submodel(best_state))

\* fit_transform returning X itself instead of its reduction
fit_transform_unreduced(is_fitted, best_state) ==
    Returns("fit_transform", build_submodel(ColumnSeq))

\* fit_transform(X, y): the value of the call self.transform(X) after self.fit
fit_transform_returns(is_fitted, best_state) ==
    [transform_returns(is_fitted, best_state) EXCEPT !.op = "fit_transform"]

\* the attributes that a lookup on a FeatureSelector finds besides the
\* parameters: the methods of the class body
FeatureSelector_methods ==
    {"fit", "_batch", "transform", "fit_transform", "get_metric_dict",
     "_check_fitted", "update_results_check", "postprocess"}

\* np.std of the one-element cv_scores
np_std(cv_scores) == 0

\* the entry of get_metric_dict for a result entry: sp.stats.sem of one score
\* is nan and so is the bound
metric_entry(e) ==
    [state |-> e.state, cv_scores |-> e.cv_scores, avg_score |-> e.avg_score,
     std_dev |-> np_std(e.cv_scores), std_err |-> "nan", ci_bound |-> "nan"]

\* get_metric_dict(): the loop over fdict calls self._calc_confidence for its
\* first key
get_metric_dict_returns(is_fitted, results) ==
    IF _check_fitted(is_fitted) # "none"
    THEN Raises("get_metric_dict", _check_fitted(is_fitted))
    ELSE IF results # <<>> /\ "_calc_confidence" \notin FeatureSelector_methods
    THEN Raises("get_metric_dict", "AttributeError: _calc_confidence")
    ELSE Returns("get_metric_dict",
                 [i \in 1 .. Len(results) |-> metric_entry(results[i])])

\* ---------------------------------------------------------------- Parallel
\* Parallel(n_jobs=self.n_jobs, ...) as _batch creates it, under the joblib
\* backend in force ("sequential" for n_jobs = 1, else "threading" or the
\* process-based "loky"), for a selector with cross-validation on or off:
\* nothing dispatched yet
Parallel(n_jobs, backend, cv) ==
    [n_jobs |-> n_jobs, backend |-> backend, cv |-> cv, running |-> {},
     completed |-> <<>>]

\* the estimator object that the evaluation of candidate i fits: with cv on
\* cross_val_score clones est_ for every split; with cv off _calc_score fits
\* selector.est_ itself, which a worker process holds as its own unpickled copy
\* of the task's arguments and a thread shares with the others
model_instance(backend, cv, i) ==
    IF cv THEN [object |-> "clone of est_", task |-> i]
    ELSE IF backend = "loky" THEN [object |-> "unpickled est_", task |-> i]
    ELSE [object |-> "selector.est_", task |-> 0]

\* the candidates dispatched so far
Dispatched(par) ==
    {r.index : r \in par.running} \cup
    {par.completed[k].index : k \in DOMAIN par.completed}

\* the scores that the evaluation of candidate i returned
ScoresOfTask(completed, i) ==
    completed[CHOOSE k \in DOMAIN completed : completed[k].index = i].cv_scores

\* a Parallel that hands the results over in the order of completion
parallel_returns_as_completed(items, completed) ==
    [k \in 1 .. Len(completed) |->
        Entry(items[completed[k].index], completed[k].cv_scores)]

\* work = parallel(delayed(_calc_score)(...) for state in candidates): the list
\* of the (state, cv_scores), in the order of the candidates
parallel_returns(items, completed) ==
    [i \in 1 .. Len(items) |-> Entry(items[i], ScoresOfTask(completed, i))]

\* ------------------------------------------------------------------- fit
Init ==
    /\ n_rows \in 1 .. MaxRows
    /\ n_cols \in 1 .. MaxCols
    /\ ctor_call = NoCall
    /\ gen = NoGen
    /\ factory = "none"
    /\ initial_state = <<>>
    /\ results_ = <<>>
    /\ best_state_ = None
    /\ best_score_ = NegInf
    /\ finished = FALSE
    /\ interrupted_ = FALSE
    /\ fitted = FALSE
    /\ pc = "idle"
    /\ _state = None
    /\ _score = NoneScore
    /\ candidates = NoCandidates
    /\ work = <<>>
    /\ last_check = NoCheck
    /\ n_fits = 0
    /\ proposal = "none"
    /\ call_result = NoResult
    /\ interrupt_at = "none"
    /\ n_evals = 0
    /\ completed_best_state = None
    /\ parallel = Parallel(1, "sequential", FALSE)

\* fit, up to the search loop: the reset and the evaluation of the initial state
fit ==
    /\ gen.cls # "none"
    /\ pc \in {"idle", "returned", "raised"}
    /\ n_fits < MaxFits
    /\ n_fits' = n_fits + 1
    /\ finished' = FALSE
    /\ interrupted_' = FALSE
    /\ candidates' = NoCandidates
    /\ work' = <<>>
    /\ _score' = NoneScore
    /\ call_result' = NoResult
    /\ interrupt_at' = "none"
    /\ \/ \* _calc_score raises: the error leaves fit
          /\ results_' = <<>>
          /\ n_evals' = 0
          /\ _state' = initial_state
          /\ pc' = "raised"
          /\ last_check' = NoCheck
          /\ UNCHANGED <<best_state_, best_score_>>
       \/ /\ ~build_submodel_raises(initial_state)
          /\ \E s \in Scores :
                LET _scores == <<s>>
                    u == update_results_check(gen, <<>>, initial_state,
                                              nanmean(_scores),
                                              <<Entry(initial_state, _scores)>>)
                IN /\ results_' = u.results_
                   /\ best_state_' = u.best_state_
                   /\ best_score_' = u.best_score_
                   /\ last_check' = Checked(u, initial_state)
          /\ _state' = initial_state
          /\ n_evals' = 1
          /\ pc' = "loop"
    /\ UNCHANGED <<parallel, completed_best_state, n_rows, n_cols, ctor_call, gen, factory, initial_state, fitted,
                   proposal>>

\* _batch: candidates = self.state_generator(state)
propose ==
    /\ pc = "loop"
    /\ ~finished
    /\ candidates' = state_generator(gen, _state)
    /\ gen' = state_generator_after(gen)
    /\ proposal' = IF proposal = "none" THEN "first" ELSE "later"
    /\ work' = <<>>
    /\ parallel' = Parallel(parallel.n_jobs, parallel.backend, parallel.cv)
    /\ pc' = "batch"
    /\ UNCHANGED <<completed_best_state, n_rows, n_cols, ctor_call, factory, initial_state, results_,
                   best_state_, best_score_, finished, interrupted_, fitted,
                   _state, _score, call_result, interrupt_at, n_evals,
                   last_check, n_fits>>

PendingCandidate == ~candidates.none /\ Len(work) < Len(candidates.items)

\* one _calc_score(self, X, y, state) of the batch returns
_calc_score ==
    /\ pc = "batch"
    /\ PendingCandidate
    /\ \E s \in Scores :
          work' = Append(work, Entry(candidates.items[Len(work) + 1], <<s>>))
    /\ UNCHANGED <<parallel, completed_best_state, n_rows, n_cols, ctor_call, gen, factory, initial_state,
                   results_, best_state_, best_score_, finished, interrupted_,
                   fitted, pc, _state, _score, candidates, call_result,
                   interrupt_at, n_evals, last_check, n_fits, proposal>>

\* an evaluation of the batch raises, or the iteration of the candidates does:
\* the error leaves _batch and fit
batch_raises ==
    /\ pc = "batch"
    /\ \/ PendingCandidate
       \/ /\ ~candidates.none
          /\ candidates.raises
          /\ Len(work) = Len(candidates.items)
    /\ pc' = "raised"
    /\ candidates' = NoCandidates
    /\ work' = <<>>
    /\ UNCHANGED <<parallel, completed_best_state, n_rows, n_cols, ctor_call, gen, factory, initial_state,
                   results_, best_state_, best_score_, finished, interrupted_,
                   fitted, _state, _score, call_result, interrupt_at, n_evals,
                   last_check, n_fits, proposal>>

\* the end of a round: _batch returns its results, update_results_check merges
\* them and decides, and _TESTING_INTERRUPT_MODE may raise KeyboardInterrupt
round_end ==
    /\ pc = "batch"
    /\ \/ candidates.none
       \/ Len(work) = Len(candidates.items) /\ ~candidates.raises
    /\ \E _TESTING_INTERRUPT_MODE \in BOOLEAN :
          LET batch_results == IF candidates.none THEN <<>>
                               ELSE batch_results_of(work)
              batch_results_evaluated == IF candidates.none THEN <<>> ELSE work
              u == update_results_check(gen, results_, best_state_, best_score_,
                                        batch_results)
          IN /\ results_' = u.results_
             /\ best_state_' = u.best_state_
             /\ best_score_' = u.best_score_
             /\ _state' = u.ret[1]
             /\ _score' = u.ret[2]
             /\ finished' = u.ret[3]
             /\ last_check' = Checked(u, best_state_)
             /\ interrupted_' = IF _TESTING_INTERRUPT_MODE
                                THEN except_KeyboardInterrupt("testing").interrupted_
                                ELSE interrupted_
             /\ interrupt_at' = IF _TESTING_INTERRUPT_MODE THEN "testing"
                                ELSE "none"
             /\ n_evals' = n_evals + Len(batch_results_evaluated)
             /\ pc' = IF _TESTING_INTERRUPT_MODE
                      THEN except_KeyboardInterrupt("testing").pc
                      ELSE IF u.ret[3] THEN "exit" ELSE "loop"
    /\ candidates' = NoCandidates
    /\ work' = <<>>
    /\ UNCHANGED <<parallel, completed_best_state, n_rows, n_cols, ctor_call, gen, factory, initial_state, fitted,
                   call_result, n_fits, proposal>>

\* except KeyboardInterrupt: a signal arrives while the loop runs
KeyboardInterrupt ==
    /\ pc \in {"loop", "batch"}
    /\ interrupted_' = except_KeyboardInterrupt(pc).interrupted_
    /\ interrupt_at' = IF pc = "batch" /\ work # <<>> THEN "partial batch" ELSE pc
    /\ results_' = _batch_interrupted(results_, work)
    /\ pc' = except_KeyboardInterrupt(pc).pc
    /\ candidates' = NoCandidates
    /\ work' = <<>>
    /\ UNCHANGED <<parallel, completed_best_state, n_rows, n_cols, ctor_call, gen, factory, initial_state,
                   best_state_, best_score_, finished, fitted, _state, _score,
                   call_result, n_evals, last_check, n_fits, proposal>>

\* after the loop: self.fitted = True; self.postprocess(); return self
fit_return ==
    /\ pc = "exit"
    /\ fitted' = TRUE
    /\ best_state_' = postprocess(results_)[1]
    /\ best_score_' = postprocess(results_)[2]
    /\ pc' = "returned"
    /\ completed_best_state' = postprocess(results_)[1]
    /\ UNCHANGED <<parallel, n_rows, n_cols, ctor_call, gen, factory, initial_state,
                   results_, finished, interrupted_, _state, _score, candidates,
                   work, call_result, interrupt_at, n_evals, last_check, n_fits,
                   proposal>>

\* fit_transform: self.fit(X, y) returns as in fit_return, then
\* return self.transform(X); fit runs alike under both entry points
fit_transform ==
    /\ pc = "exit"
    /\ fitted' = TRUE
    /\ best_state_' = postprocess(results_)[1]
    /\ best_score_' = postprocess(results_)[2]
    /\ pc' = "returned"
    /\ completed_best_state' = postprocess(results_)[1]
    /\ call_result' = fit_transform_returns(fitted', best_state_')
    /\ UNCHANGED <<parallel, n_rows, n_cols, ctor_call, gen, factory, initial_state,
                   results_, finished, interrupted_, _state, _score, candidates,
                   work, interrupt_at, n_evals, last_check, n_fits, proposal>>

\* no fit call is running on the selector
Idle == gen.cls # "none" /\ pc \in {"idle", "returned", "raised"}

\* transform(X)
transform ==
    /\ Idle
    /\ call_result' = transform_returns(fitted, best_state_)
    /\ UNCHANGED <<parallel, completed_best_state, n_rows, n_cols, ctor_call, gen, factory, initial_state,
                   results_, best_state_, best_score_, finished, interrupted_,
                   fitted, pc, _state, _score, candidates, work, interrupt_at,
                   n_evals, last_check, n_fits, proposal>>

\* get_metric_dict()
get_metric_dict ==
    /\ Idle
    /\ call_result' = get_metric_dict_returns(fitted, results_)
    /\ UNCHANGED <<parallel, completed_best_state, n_rows, n_cols, ctor_call, gen, factory, initial_state,
                   results_, best_state_, best_score_, finished, interrupted_,
                   fitted, pc, _state, _score, candidates, work, interrupt_at,
                   n_evals, last_check, n_fits, proposal>>

\* ---- _batch with n_jobs > 1
\* Parallel dispatches the next candidate to a free worker
dispatch ==
    /\ pc = "batch"
    /\ ~candidates.none
    /\ work = <<>>
    /\ Cardinality(parallel.running) < parallel.n_jobs
    /\ Cardinality(Dispatched(parallel)) < Len(candidates.items)
    /\ LET i == Cardinality(Dispatched(parallel)) + 1
       IN parallel' =
             [parallel EXCEPT !.running = @ \cup
                 {[index |-> i,
                   instance |-> model_instance(parallel.backend, parallel.cv, i)]}]
    /\ UNCHANGED <<completed_best_state, n_rows, n_cols, ctor_call, gen, factory,
                   initial_state, results_, best_state_, best_score_, finished,
                   interrupted_, fitted, pc, _state, _score, candidates, work,
                   call_result, interrupt_at, n_evals, last_check, n_fits,
                   proposal>>

\* a running _calc_score returns, in whatever order
complete ==
    /\ pc = "batch"
    /\ \E r \in parallel.running, s \in Scores :
          parallel' =
             [parallel EXCEPT !.running = @ \ {r},
                              !.completed = Append(@, [index |-> r.index,
                                                       cv_scores |-> <<s>>])]
    /\ UNCHANGED <<completed_best_state, n_rows, n_cols, ctor_call, gen, factory,
                   initial_state, results_, best_state_, best_score_, finished,
                   interrupted_, fitted, pc, _state, _score, candidates, work,
                   call_result, interrupt_at, n_evals, last_check, n_fits,
                   proposal>>

\* every task has returned: parallel(...) returns the list work
gather ==
    /\ pc = "batch"
    /\ ~candidates.none
    /\ work = <<>>
    /\ candidates.items # <<>>
    /\ Len(parallel.completed) = Len(candidates.items)
    /\ work' = parallel_returns(candidates.items, parallel.completed)
    /\ UNCHANGED <<parallel, completed_best_state, n_rows, n_cols, ctor_call, gen,
                   factory, initial_state, results_, best_state_, best_score_,
                   finished, interrupted_, fitted, pc, _state, _score, candidates,
                   call_result, interrupt_at, n_evals, last_check, n_fits,
                   proposal>>

Next ==
    \/ min_max_candidates
    \/ step_candidates
    \/ FeatureSelector__init__
    \/ fit
    \/ propose
    \/ _calc_score
    \/ batch_raises
    \/ round_end
    \/ KeyboardInterrupt
    \/ fit_return
    \/ fit_transform
    \/ transform
    \/ get_metric_dict

Spec == Init /\ [][Next]_vars

\* ================================================================ claims
MaxAvg(d) ==
    CHOOSE m \in {d[i].avg_score : i \in DOMAIN d} :
        \A j \in DOMAIN d : d[j].avg_score <= m

NoDuplicates(q) == \A i, j \in DOMAIN q : q[i] = q[j] => i = j

BatchSize(c) == IF c.none THEN 0 ELSE Len(c.items)

RECURSIVE Binomial(_, _)
Binomial(n, k) ==
    IF k = 0 THEN 1
    ELSE IF n = 0 THEN 0
    ELSE Binomial(n - 1, k - 1) + Binomial(n - 1, k)

RECURSIVE SumBinomial(_, _, _)
SumBinomial(n, lo, hi) ==
    IF lo > hi THEN 0 ELSE Binomial(n, lo) + SumBinomial(n, lo + 1, hi)

\* C1: once fit has returned, best_score_ is the maximum avg_score of the
\* result table and best_state_ is a key of the table with that avg_score.
C1_BestIsMaxOfResults ==
    pc = "returned" =>
        /\ results_ # <<>>
        /\ best_score_ = MaxAvg(results_)
        /\ best_state_ \in DictKeys(results_)
        /\ DictGet(results_, best_state_).avg_score = MaxAvg(results_)

\* a fit that was interrupted returned, with a table of different scores whose
\* best state is not the initial state
C1_Witness ==
    /\ pc = "returned"
    /\ interrupted_
    /\ Len(results_) >= 2
    /\ \E i, j \in DOMAIN results_ : results_[i].avg_score # results_[j].avg_score
    /\ best_state_ # initial_state

\* C2: the first call of a MinMaxCandidates object yields every subset of the
\* columns of size min_features..max_features that contains the fixed features,
\* each exactly once and nothing else; with no fixed features these are
\* C(n,min) + ... + C(n,max) candidates.
C2_FirstProposalIsAllSubsets ==
    (pc = "batch" /\ gen.cls = "minmax" /\ proposal = "first") =>
        /\ ~candidates.none
        /\ ~candidates.raises
        /\ NoDuplicates(candidates.items)
        /\ ToSet(candidates.items) =
              {sorted(S) : S \in {T \in SUBSET Columns :
                                     /\ Cardinality(T) >= gen.min_features
                                     /\ Cardinality(T) <= gen.max_features
                                     /\ gen.fixed_features \subseteq T}}
        /\ gen.fixed_features = {} =>
              Len(candidates.items) =
                  SumBinomial(n_cols, gen.min_features, gen.max_features)

\* the first batch of an exhaustive search over two sizes, with a fixed feature
\* that some column subsets lack
C2_Witness ==
    /\ pc = "batch"
    /\ gen.cls = "minmax"
    /\ proposal = "first"
    /\ gen.min_features < gen.max_features
    /\ gen.max_features <= n_cols
    /\ gen.fixed_features # {}
    /\ gen.fixed_features # Columns
    /\ Len(candidates.items) >= 2

\* C3: a second or later call of the same MinMaxCandidates object returns no
\* candidates.
C3_LaterProposalsAreEmpty ==
    (pc = "batch" /\ gen.cls = "minmax" /\ proposal = "later") =>
        BatchSize(candidates) = 0

\* the generator of an exhaustive search is called a second time, by a second
\* fit, after a first call that yielded candidates
C3_Witness ==
    /\ pc = "batch"
    /\ gen.cls = "minmax"
    /\ proposal = "later"
    /\ n_fits = 2
    /\ gen.min_features <= n_cols

\* C4: MinMaxCandidates.check_finished returns the state with the highest
\* avg_score of results, that avg_score, and True.
C4_CheckFinishedReturnsArgmax ==
    (last_check.called /\ gen.cls = "minmax") =>
        /\ last_check.ret[3] = TRUE
        /\ last_check.ret[1] \in DictKeys(last_check.results)
        /\ last_check.ret[2] = MaxAvg(last_check.results)
        /\ DictGet(last_check.results, last_check.ret[1]).avg_score
              = MaxAvg(last_check.results)

\* C5: constructing a generator raises exactly when min_features or
\* max_features is not an integer in [1, number of columns] or
\* max_features < min_features.
ValidFeatureCount(a) == a.is_int /\ a.val >= 1 /\ a.val <= n_cols

C5_ConstructorRaisesExactlyOnBadBounds ==
    ctor_call.cls # "none" =>
        (ctor_call.raised # "ok"
            <=> \/ ~ValidFeatureCount(ctor_call.min_features)
                \/ ~ValidFeatureCount(ctor_call.max_features)
                \/ ctor_call.max_features.val < ctor_call.min_features.val)

\* C6 as stated: a forward StepCandidates with no fixed features,
\* min_features = 0 and max_features = n is constructed, and in a search from
\* the empty state every batch has n - |current state| candidates.
C6_Original ==
    (/\ ctor_call.cls = "step"
     /\ ctor_call.direction = "forward"
     /\ ctor_call.fixed_features = {}
     /\ ctor_call.min_features = IntArg(0)
     /\ ctor_call.max_features = IntArg(n_cols)) =>
        /\ ctor_call.raised = "ok"
        /\ (pc = "batch" /\ initial_state = <<>>) =>
              BatchSize(candidates) = n_cols - Len(_state)

\* C6 (amended): for a forward StepCandidates that was constructed, with no
\* fixed features and max_features = n (min_features is then at least 1), in a
\* search from the empty state the batch of every round has n - |current state|
\* candidates, a batch of None counting as empty.
C6_ForwardBatchSize ==
    (/\ pc = "batch"
     /\ gen.cls = "step"
     /\ gen.direction = "forward"
     /\ gen.fixed_features = {}
     /\ gen.max_features = n_cols
     /\ initial_state = <<>>) =>
        BatchSize(candidates) = n_cols - Len(_state)

\* the second round of such a search over two columns: one candidate
C6_Witness ==
    /\ pc = "batch"
    /\ gen.cls = "step"
    /\ gen.direction = "forward"
    /\ gen.fixed_features = {}
    /\ gen.max_features = n_cols
    /\ initial_state = <<>>
    /\ n_cols >= 2
    /\ Len(_state) = 1
    /\ BatchSize(candidates) = n_cols - 1

\* the states a round proposes and the state it refers to
RoundStates ==
    IF pc = "batch" THEN {_state} \cup ToSet(candidates.items) ELSE {}

\* C7 as stated: in every forward stepwise search, no proposed state and no
\* reference state of a round has more than max_features elements.
C7_Original ==
    (gen.cls = "step" /\ gen.direction = "forward") =>
        \A t \in RoundStates : Len(t) <= gen.max_features

\* C7 (amended): in a forward stepwise search configured through
\* step_candidates, no proposed state and no reference state of a round has
\* more than max_features elements; in every forward stepwise search no
\* proposed state has.
C7_ForwardNeverExceedsMax ==
    (gen.cls = "step" /\ gen.direction = "forward") =>
        /\ factory = "step_candidates" =>
              \A t \in RoundStates : Len(t) <= gen.max_features
        /\ pc = "batch" =>
              \A t \in ToSet(candidates.items) : Len(t) <= gen.max_features

\* a round of a forward search whose reference state has max_features elements,
\* fewer than there are columns: nothing is proposed
C7_Witness ==
    /\ pc = "batch"
    /\ gen.cls = "step"
    /\ gen.direction = "forward"
    /\ factory = "step_candidates"
    /\ gen.max_features < n_cols
    /\ Len(_state) = gen.max_features
    /\ candidates.none

C9_ResultKeysContainFixed ==
    factory \in {"min_max_candidates", "step_candidates"} =>
        \A k \in DictKeys(results_) : gen.fixed_features \subseteq ToSet(k)

\* a fit returned with several states in the table, the fixed features being
\* some but not all of the columns
C9_Witness ==
    /\ factory \in {"min_max_candidates", "step_candidates"}
    /\ pc = "returned"
    /\ gen.fixed_features # {}
    /\ gen.fixed_features # Columns
    /\ Len(results_) >= 2

\* C10: a backward StepCandidates with fixed features, called with a state that
\* contains them, proposes no state that lacks a fixed feature.
C10_BackwardKeepsFixed ==
    (/\ pc = "batch"
     /\ gen.cls = "step"
     /\ gen.direction = "backward"
     /\ gen.fixed_features # {}
     /\ gen.fixed_features \subseteq ToSet(_state)) =>
        \A t \in ToSet(candidates.items) :
            (ToSet(_state) \ ToSet(t)) \cap gen.fixed_features = {}

\* a backward batch from a state larger than min_features that holds a fixed
\* feature and a free one: the free one is proposed for removal
C10_Witness ==
    /\ pc = "batch"
    /\ gen.cls = "step"
    /\ gen.direction = "backward"
    /\ gen.fixed_features # {}
    /\ gen.fixed_features \subseteq ToSet(_state)
    /\ Cardinality(ToSet(_state)) > gen.min_features
    /\ ToSet(_state) # gen.fixed_features
    /\ Len(candidates.items) >= 1

\* C11: a StepCandidates of direction both, called with a state S with
\* min_features <= |S| <= max_features, yields the forward candidates of S
\* followed by the backward candidates of S, the forward part being empty when
\* |S| = max_features and the backward part when |S| = min_features.
C11_BothIsForwardThenBackward ==
    (/\ pc = "batch"
     /\ gen.cls = "step"
     /\ gen.direction = "both"
     /\ Cardinality(ToSet(_state)) >= gen.min_features
     /\ Cardinality(ToSet(_state)) <= gen.max_features) =>
        candidates =
            Iterable(forward(gen, _state).items \o backward(gen, _state).items)

\* A fit call is between its initial evaluation and its return.
InFit == pc \in {"loop", "batch", "exit"}

\* C12: within one fit call best_score_ never decreases: once the initial
\* evaluation has set it, every completed round and the post-processing leave
\* it at least as high as it was.
C12_BestScoreNeverDecreases ==
    [][(InFit /\ pc' \in {"loop", "batch", "exit", "returned"}) =>
           best_score_' >= best_score_]_vars

\* C13: the best score post-processing recomputes from the whole result table
\* is at least the best-so-far score the loop held when it exited.
C13_PostprocessNotBelowLoopBest ==
    pc = "exit" => postprocess(results_)[2] >= best_score_

Fresh ==
    /\ ctor_call = NoCall
    /\ gen = NoGen
    /\ factory = "none"
    /\ initial_state = <<>>
    /\ results_ = <<>>
    /\ best_state_ = None
    /\ best_score_ = NegInf
    /\ finished = FALSE
    /\ interrupted_ = FALSE
    /\ fitted = FALSE
    /\ pc = "idle"
    /\ _state = None
    /\ _score = NoneScore
    /\ candidates = NoCandidates
    /\ work = <<>>
    /\ last_check = NoCheck
    /\ n_fits = 0
    /\ proposal = "none"
    /\ call_result = NoResult
    /\ interrupt_at = "none"
    /\ n_evals = 0
    /\ completed_best_state = None
    /\ parallel = Parallel(1, "sequential", FALSE)

\* a dataset of 4 columns
InitC15 ==
    /\ n_rows = MaxRows
    /\ n_cols = 4
    /\ Fresh

\* min_max_candidates(X, min_features=1, max_features=2, fixed_features=None)
ExhaustiveC15 ==
    /\ min_max_candidates
    /\ gen' = NewGen("minmax", "forward", IntArg(1), IntArg(2), {})

\* the first fit call on the selector
FirstFit == fit /\ n_fits = 0

NextC15 ==
    \/ ExhaustiveC15
    \/ FirstFit
    \/ propose
    \/ _calc_score
    \/ batch_raises
    \/ round_end
    \/ KeyboardInterrupt
    \/ fit_return

SpecC15 == InitC15 /\ [][NextC15]_vars

\* the states an exhaustive search over sizes lo..hi has to evaluate
SubsetsOfSize(lo, hi) ==
    {sorted(S) : S \in {T \in SUBSET Columns :
                           Cardinality(T) >= lo /\ Cardinality(T) <= hi}}

\* C15: an exhaustive search over 4 features with min_features = 1,
\* max_features = 2 and no fixed features evaluates, in one uninterrupted fit,
\* the initial state and then exactly the C(4,1) + C(4,2) = 10 subsets of size
\* 1 or 2, and ends with the subset of highest mean score as best state.
C15_ExhaustiveEvaluatesTenPlusInitial ==
    /\ pc = "batch" =>
          /\ Len(candidates.items) = Binomial(4, 1) + Binomial(4, 2)
          /\ Len(candidates.items) = 10
          /\ NoDuplicates(candidates.items)
          /\ ToSet(candidates.items) = SubsetsOfSize(1, 2)
    /\ (pc = "returned" /\ ~interrupted_) =>
          /\ n_evals = 1 + 10
          /\ DictKeys(results_) = SubsetsOfSize(1, 2)
          /\ best_state_ \in SubsetsOfSize(1, 2)
          /\ DictGet(results_, best_state_).avg_score = MaxAvg(results_)
          /\ best_score_ = MaxAvg(results_)

\* a completed exhaustive search whose best state is a pair
C15_Witness ==
    /\ pc = "returned"
    /\ ~interrupted_
    /\ gen.cls = "minmax"
    /\ n_cols = 4
    /\ n_evals = 11
    /\ Len(best_state_) = 2

\* ---- the forward stepwise search on 5 features from the empty state
\* a dataset of 5 columns, with rows enough for max_features = 2 and more
InitC16 ==
    /\ n_rows = MaxRows + 1
    /\ n_cols = 5
    /\ Fresh

\* FeatureSelector(estimator, (), StepCandidates(X, direction='forward',
\* min_features=1, max_features >= 2), build_submodel, check_finished)
ForwardFromEmptyC16 ==
    /\ FeatureSelector__init__
    /\ gen'.cls = "step"
    /\ gen'.direction = "forward"
    /\ gen'.min_features = 1
    /\ gen'.max_features >= 2
    /\ gen'.fixed_features = {}
    /\ initial_state' = <<>>

NextC16 ==
    \/ ForwardFromEmptyC16
    \/ FirstFit
    \/ propose
    \/ _calc_score
    \/ batch_raises
    \/ round_end
    \/ KeyboardInterrupt
    \/ fit_return

SpecC16 == InitC16 /\ [][NextC16]_vars

\* the scores of the scenario, as far as the table d has them: (3,) is above
\* the initial state and above every other singleton, and no pair with
\* feature 3 is above (3,)
ScoresOfC16(d) ==
    /\ <<>> \in DictKeys(d)
    /\ <<3>> \in DictKeys(d)
    /\ \A i \in DOMAIN d :
          LET top == DictGet(d, <<3>>).avg_score
          IN /\ (Len(d[i].state) = 0) => d[i].avg_score < top
             /\ (Len(d[i].state) = 1 /\ d[i].state # <<3>>) =>
                   d[i].avg_score < top
             /\ (Len(d[i].state) = 2 /\ 3 \in ToSet(d[i].state)) =>
                   d[i].avg_score <= top

\* C16: a forward stepwise search on 5 features from the empty state, in which
\* (3,) scores strictly above the empty state and above every other singleton
\* and no pair with feature 3 scores strictly above (3,), ends after exactly
\* two rounds (the 5 singletons, then the 4 pairs with feature 3) with
\* best_state_ = (3,).
C16_ForwardStopsAfterTwoRounds ==
    (pc = "returned" /\ ~interrupted_ /\ ScoresOfC16(results_)) =>
        /\ finished
        /\ best_state_ = <<3>>
        /\ best_score_ = DictGet(results_, <<3>>).avg_score
        /\ n_evals = 1 + 5 + 4
        /\ Len(results_) = 1 + 5 + 4
        /\ DictKeys(results_) =
              {<<>>} \cup {<<c>> : c \in Columns}
                     \cup {sorted({3, c}) : c \in Columns \ {3}}

\* the search has ended with a pair that ties with (3,)
C16_Witness ==
    /\ pc = "returned"
    /\ ~interrupted_
    /\ gen.max_features > 2
    /\ ScoresOfC16(results_)
    /\ best_state_ = <<3>>
    /\ n_evals = 10
    /\ \E i \in DOMAIN results_ :
          /\ Len(results_[i].state) = 2
          /\ results_[i].avg_score = best_score_

\* C17: a KeyboardInterrupt raised while the loop of fit runs does not leave
\* fit: fit goes on to its return with interrupted_ true, and once it has
\* returned the selector is fitted and post-processed; a fit that returns with
\* no interrupt raised has interrupted_ false.
C17_InterruptIsCaught ==
    /\ interrupt_at # "none" =>
          /\ interrupted_
          /\ pc \in {"exit", "returned"}
    /\ (pc = "returned" /\ interrupt_at # "none") =>
          /\ fitted
          /\ best_state_ = postprocess(results_)[1]
          /\ best_score_ = postprocess(results_)[2]
    /\ (pc = "returned" /\ interrupt_at = "none") => ~interrupted_

\* a second fit has returned after an interrupt in the middle of a batch
C17_Witness ==
    /\ pc = "returned"
    /\ n_fits = 2
    /\ interrupt_at = "partial batch"
    /\ interrupted_
    /\ fitted

\* C18: when a KeyboardInterrupt arrives while a batch is being evaluated, the
\* result table that fit leaves is the table of the last completed round (the
\* initial state and the states of the rounds completed before): nothing of
\* the interrupted batch is in it.
C18_InterruptedBatchIsDiscarded ==
    interrupt_at \in {"batch", "partial batch"} =>
        /\ last_check.called
        /\ results_ = last_check.results
        /\ Len(results_) <= n_evals

\* fit has returned after an interrupt that found part of a batch evaluated,
\* with a completed round before it
C18_Witness ==
    /\ pc = "returned"
    /\ interrupt_at = "partial batch"
    /\ Len(results_) > 1
    /\ proposal = "later"

\* C19: transform and get_metric_dict called on a selector on which no fit has
\* completed raise and return nothing; on a selector on which a fit has
\* completed, transform returns the submodel of the dataset for best_state_.
C19_UnfittedCallsRaise ==
    /\ (call_result.op \in {"transform", "get_metric_dict"} /\ ~fitted) =>
          /\ call_result.raises = "AttributeError: not fitted"
          /\ call_result.value = <<>>
    /\ (call_result.op = "transform" /\ fitted) =>
          /\ call_result.raises = "none"
          /\ call_result.value = build_submodel(best_state_)
          /\ pc = "returned" =>
                call_result.value = build_submodel(postprocess(results_)[1])

\* transform has raised on a selector whose only fit call failed
C19_Witness ==
    /\ call_result.op = "transform"
    /\ ~fitted
    /\ pc = "raised"

\* transform has returned a proper reduction after a completed fit
C19_WitnessFitted ==
    /\ call_result.op = "transform"
    /\ fitted
    /\ pc = "returned"
    /\ Len(results_) > 1
    /\ best_state_ # initial_state
    /\ Len(call_result.value) < n_cols

\* C20: get_metric_dict on a fitted selector returns one entry for every state
\* of the result table, carrying cv_scores and avg_score of the table and
\* std_dev, std_err and ci_bound, and leaves the result table as it is.
C20_MetricDictHasEveryState ==
    (call_result.op = "get_metric_dict" /\ fitted) =>
        /\ call_result.raises = "none"
        /\ Len(call_result.value) = Len(results_)
        /\ \A i \in DOMAIN results_ :
              /\ call_result.value[i].state = results_[i].state
              /\ call_result.value[i].cv_scores = results_[i].cv_scores
              /\ call_result.value[i].avg_score = results_[i].avg_score
              /\ {"std_dev", "std_err", "ci_bound"} \subseteq
                    DOMAIN call_result.value[i]

\* a step in which a round with a non-empty batch ends: _batch returns and
\* update_results_check merges and decides
RoundEnds ==
    /\ pc = "batch"
    /\ pc' \in {"loop", "exit"}
    /\ ~candidates.none
    /\ work # <<>>
    /\ Len(work) = Len(candidates.items)
    /\ interrupt_at' \in {"none", "testing"}

\* C21: StepCandidates.check_finished reports done exactly when the highest
\* avg_score of the batch is not strictly greater than the avg_score the table
\* records for the current best state (a tie stops the search), and it returns
\* the first best state of the batch with its score.
C21_StepDoneIffNoStrictImprovement ==
    [][(RoundEnds /\ gen.cls = "step") =>
          LET batch == batch_results_of(work)
              top == MaxAvg(batch)
              recorded == DictGet(results_', best_state_).avg_score
              ret == last_check'.ret
          IN /\ last_check'.called
             /\ ret[3] = ~(top > recorded)
             /\ ret[3] = (top <= recorded)
             /\ ret[2] = top
             /\ ret[1] \in DictKeys(batch)
             /\ DictGet(batch, ret[1]).avg_score = top
             /\ finished' = ret[3]]_vars

\* a round of a stepwise search has ended the search on a tie with the best
\* state
C21_Witness ==
    /\ gen.cls = "step"
    /\ proposal # "none"
    /\ pc = "exit"
    /\ finished
    /\ interrupt_at = "none"
    /\ last_check.called
    /\ last_check.ret[1] # last_check.best_state
    /\ last_check.ret[2] =
          DictGet(last_check.results, last_check.best_state).avg_score

\* C22: within one fit call the result table is append-only: from one step of
\* the fit to the next no key is lost and the entry stored for a state stays as
\* it was written, also when a batch holds a state that was evaluated before.
C22_ResultTableAppendOnly ==
    [][(InFit /\ pc' \in {"loop", "batch", "exit", "returned"}) =>
          /\ DictKeys(results_) \subseteq DictKeys(results_')
          /\ \A k \in DictKeys(results_) :
                DictGet(results_', k) = DictGet(results_, k)]_vars

\* C25: in a search configured through min_max_candidates or step_candidates
\* every key of the result table is a sorted tuple of pairwise distinct
\* columns, so no two keys of the table denote the same set of columns.
C25_KeysAreSortedAndDistinct ==
    factory \in {"min_max_candidates", "step_candidates"} =>
        /\ \A k \in DictKeys(results_) :
              /\ Len(k) = Cardinality(ToSet(k))
              /\ k = sorted(ToSet(k))
        /\ \A k, l \in DictKeys(results_) : ToSet(k) = ToSet(l) => k = l

\* ---- fit calls in a row, every one of which completes: no evaluation raises
\* and no interrupt arrives
CompletingFit == fit /\ pc' = "loop"

CompletingRoundEnd == round_end /\ ~interrupted_'

NextC26 ==
    \/ min_max_candidates
    \/ step_candidates
    \/ FeatureSelector__init__
    \/ CompletingFit
    \/ propose
    \/ _calc_score
    \/ CompletingRoundEnd
    \/ fit_return

SpecC26 == Init /\ [][NextC26]_vars

\* the keys of the table that the first fit of an exhaustive search leaves,
\* whatever the scores: the initial state and every subset of the configured
\* sizes that holds the fixed features
FirstFitKeys ==
    {initial_state} \cup
    {sorted(S) : S \in {T \in SUBSET Columns :
                           /\ Cardinality(T) >= gen.min_features
                           /\ Cardinality(T) <= gen.max_features
                           /\ gen.fixed_features \subseteq T}}

\* C26: a second fit on the same FeatureSelector, with the same data, the same
\* scores and the same generator object, leaves the result table (and with it
\* the best state and score) that the first fit left. For an exhaustive search
\* the keys of that table do not depend on the scores, so every completed fit
\* has to leave the keys of the first one.
C26_SecondFitRepeatsFirst ==
    (pc = "returned" /\ gen.cls = "minmax") => DictKeys(results_) = FirstFitKeys

\* C27: after a fit call that was aborted by an error of an evaluation,
\* transform either raises the not-fitted error or returns the submodel for the
\* best state of the last fit call that completed, never one for a state of
\* the aborted call.
C27_TransformAfterAbortedFit ==
    (call_result.op = "transform" /\ pc = "raised") =>
        \/ call_result.raises = "AttributeError: not fitted"
        \/ /\ call_result.raises = "none"
           /\ completed_best_state # None
           /\ call_result.value = build_submodel(completed_best_state)

\* C28: in an exhaustive search configured through min_max_candidates every
\* state of the result table after fit, the initial state included, has
\* between min_features and max_features columns.
C28_ExhaustiveKeysWithinBounds ==
    (factory = "min_max_candidates" /\ pc = "returned") =>
        \A k \in DictKeys(results_) :
            /\ Cardinality(ToSet(k)) >= gen.min_features
            /\ Cardinality(ToSet(k)) <= gen.max_features

\* ---- fit calls in which every evaluation returns and no interrupt arrives;
\* the iteration of the candidates may still fail
IterationRaises == batch_raises /\ ~PendingCandidate

NextC29 ==
    \/ min_max_candidates
    \/ step_candidates
    \/ FeatureSelector__init__
    \/ CompletingFit
    \/ propose
    \/ _calc_score
    \/ CompletingRoundEnd
    \/ IterationRaises
    \/ fit_return

SpecC29 == Init /\ [][NextC29]_vars

\* C29: a stepwise search in which every evaluation returns terminates: every
\* round either finishes the search or strictly raises best_score_, so the
\* loop of fit reaches finished after finitely many rounds.
C29_RoundFinishesOrRaisesBest ==
    [][(gen.cls = "step" /\ pc = "batch" /\ pc' # "batch") =>
          /\ pc' # "raised"
          /\ finished' \/ best_score_' > best_score_]_vars

\* C30: in a stepwise search, at the start of every round (and while its batch
\* is evaluated) the reference state given to the generator is best_state_,
\* best_state_ is a key of the result table and best_score_ is the avg_score
\* the table records for it.
C30_ReferenceStateIsBest ==
    (gen.cls = "step" /\ pc \in {"loop", "batch"}) =>
        /\ ~finished
        /\ _state = best_state_
        /\ best_state_ \in DictKeys(results_)
        /\ best_score_ = DictGet(results_, best_state_).avg_score

\* the second round of a stepwise search is about to start from a state that
\* the first round has found
C30_Witness ==
    /\ gen.cls = "step"
    /\ pc = "loop"
    /\ proposal # "none"
    /\ Len(results_) > 1
    /\ _state # initial_state
    /\ best_state_ = _state

\* ---- stepwise searches whose batches are evaluated by several workers; every
\* evaluation returns and no interrupt arrives
\* the selector is constructed with n_jobs > 1 and cv on or off, and fit runs
\* under the threading or the loky backend of joblib
FeatureSelector_n_jobs ==
    /\ gen.cls = "step"
    /\ pc = "idle"
    /\ parallel.n_jobs = 1
    /\ \E backend \in {"threading", "loky"}, cv \in BOOLEAN :
          parallel' = Parallel(MaxJobs, backend, cv)
    /\ UNCHANGED <<completed_best_state, n_rows, n_cols, ctor_call, gen, factory,
                   initial_state, results_, best_state_, best_score_, finished,
                   interrupted_, fitted, pc, _state, _score, candidates, work,
                   call_result, interrupt_at, n_evals, last_check, n_fits,
                   proposal>>

ParallelFit == CompletingFit /\ parallel.n_jobs > 1 /\ n_fits = 0

NextParallel ==
    \/ step_candidates
    \/ FeatureSelector__init__
    \/ FeatureSelector_n_jobs
    \/ ParallelFit
    \/ propose
    \/ dispatch
    \/ complete
    \/ gather
    \/ CompletingRoundEnd
    \/ fit_return

SpecParallel == Init /\ [][NextParallel]_vars

\* C23: no two evaluations of a batch that run at the same time operate on the
\* same model instance, with cross-validation on or off.
C23_RunningEvaluationsOwnTheirModel ==
    \A r, q \in parallel.running :
        r.index # q.index => r.instance # q.instance

\* the batch with its scores keyed by candidate, in the order of the candidates
InCandidateOrder(items, completed) ==
    [i \in 1 .. Len(items) |->
        LET k == CHOOSE j \in DOMAIN completed : completed[j].index = i
        IN [state |-> items[i], cv_scores |-> completed[k].cv_scores,
            avg_score |-> completed[k].cv_scores[1]]]

\* C24: the order in which the evaluations of a batch complete does not affect
\* the round: the merged table, the state and score the round chooses, the
\* done decision and the best-so-far are those computed from the batch in the
\* order of its candidates with each state's score, and no evaluation is
\* running or unmerged when the next batch is proposed.
C24_CompletionOrderIsIrrelevant ==
    /\ [](/\ parallel.running # {} => pc = "batch"
          /\ (pc = "batch" /\ work # <<>>) =>
                work = InCandidateOrder(candidates.items, parallel.completed))
    /\ [][RoundEnds =>
             LET batch == DictUpdate(<<>>, InCandidateOrder(candidates.items,
                                                           parallel.completed))
                 u == update_results_check(gen, results_, best_state_,
                                           best_score_, batch)
             IN /\ Len(parallel.completed) = Len(candidates.items)
                /\ parallel.running = {}
                /\ ToSet(candidates.items) \subseteq DictKeys(results_')
                /\ results_' = u.results_
                /\ best_state_' = u.best_state_
                /\ best_score_' = u.best_score_
                /\ _state' = u.ret[1]
                /\ _score' = u.ret[2]
                /\ finished' = u.ret[3]]_vars
    /\ [][(pc = "loop" /\ pc' = "batch") =>
             /\ parallel.running = {}
             /\ work = <<>>
             /\ parallel'.completed = <<>>]_vars

\* a round has ended whose evaluations completed out of the order of the
\* candidates, the later candidate with the higher score
C24_Witness ==
    /\ pc \in {"loop", "exit"}
    /\ Len(parallel.completed) >= 2
    /\ parallel.completed[1].index > parallel.completed[2].index
    /\ parallel.completed[1].cv_scores[1] >= parallel.completed[2].cv_scores[1]
    /\ Len(results_) > 2

====
